---------------------------- MODULE Spec2Model ----------------------------
(***************************************************************************)
(* A model of the JSON codec of src/src/lib.rs: Json::decode, Json::encode *)
(* and Json::validate, the recursive walks of JsonDecoder and JsonEncoder, *)
(* and the serde_json parser, number type, Map and writers they call.      *)
(*                                                                         *)
(* Text is modelled at the level of JSON tokens.  A string is a sequence   *)
(* of Unicode code points; in a text each character of a string literal is *)
(* a unit, either written literally or written as an escape sequence.      *)
(* Integers of 64 bits are kept at full width as decimal digit sequences.  *)
(* An f64 is named by a decimal literal whose nearest double it is.        *)
(***************************************************************************)
EXTENDS Integers, Sequences, FiniteSets, TLC

VARIABLES
    preserve_order, \* build: serde_json feature "preserve_order" (Map = IndexMap), else BTreeMap
    call,           \* the call in progress or just returned: its function and arguments
    pc,             \* "called": the call has not run yet; "returned": ret is its result
    ret,            \* what the call returned
    prev            \* the caller's previous call and its result, [fn |-> "none"] at first

vars == <<preserve_order, call, pc, ret, prev>>

---------------------------------------------------------------------------
(* Decimal digit sequences: 64-bit integers at full width.                 *)

I64_MAX == <<9,2,2,3,3,7,2,0,3,6,8,5,4,7,7,5,8,0,7>>
I64_MIN_MAGNITUDE == <<9,2,2,3,3,7,2,0,3,6,8,5,4,7,7,5,8,0,8>>
U64_MAX == <<1,8,4,4,6,7,4,4,0,7,3,7,0,9,5,5,1,6,1,5>>

\* a <= b for digit sequences without leading zeros
DigitsLE(a, b) ==
    \/ Len(a) < Len(b)
    \/ /\ Len(a) = Len(b)
       /\ \/ a = b
          \/ \E i \in 1..Len(a) :
                /\ a[i] < b[i]
                /\ \A j \in 1..(i - 1) : a[j] = b[j]

\* lexicographic order of strings by code point (the order of their UTF-8 bytes)
StrLess(a, b) ==
    \/ /\ Len(a) < Len(b)
       /\ \A j \in 1..Len(a) : a[j] = b[j]
    \/ \E i \in 1..Len(a) :
          /\ i <= Len(b)
          /\ a[i] < b[i]
          /\ \A j \in 1..(i - 1) : a[j] = b[j]

---------------------------------------------------------------------------
(* serde_json::Value and serde_json::Number.                               *)

F64Finite(neg, int, frac) == [cls |-> "finite", neg |-> neg, int |-> int, frac |-> frac]
F64Infinity == [cls |-> "inf"]
F64NegInfinity == [cls |-> "-inf"]
F64NaN == [cls |-> "nan"]

is_finite(f) == f.cls = "finite"

PosInt(mag) == [n |-> "PosInt", mag |-> mag]
NegInt(mag) == [n |-> "NegInt", mag |-> mag]
Float(f) == [n |-> "Float", f |-> f]

JNull == [t |-> "Null"]
JBool(b) == [t |-> "Bool", b |-> b]
JNumber(n) == [t |-> "Number", num |-> n]
JString(s) == [t |-> "String", s |-> s]
JArray(a) == [t |-> "Array", a |-> a]
JObject(m) == [t |-> "Object", m |-> m]

\* Number::as_i64: an integer that fits i64
as_i64(n) ==
    CASE n.n = "PosInt" ->
            IF DigitsLE(n.mag, I64_MAX)
            THEN [some |-> TRUE, neg |-> FALSE, mag |-> n.mag]
            ELSE [some |-> FALSE]
      [] n.n = "NegInt" -> [some |-> TRUE, neg |-> TRUE, mag |-> n.mag]
      [] OTHER -> [some |-> FALSE]

\* Number::as_f64: every Number has an f64 (an integer is cast to the nearest one)
as_f64(n) ==
    CASE n.n = "PosInt" -> [some |-> TRUE, f |-> F64Finite(FALSE, n.mag, <<>>)]
      [] n.n = "NegInt" -> [some |-> TRUE, f |-> F64Finite(TRUE, n.mag, <<>>)]
      [] OTHER -> [some |-> TRUE, f |-> n.f]

\* Number::from_f64: None for a non-finite float
from_f64(f) ==
    IF is_finite(f) THEN [some |-> TRUE, n |-> Float(f)] ELSE [some |-> FALSE]

\* Map<String, Value>::insert.  An existing key keeps its place and takes the
\* new value; a new key goes last in an IndexMap and in key order in a BTreeMap.
MapInsert(m, key, val) ==
    IF \E i \in 1..Len(m) : m[i].key = key
    THEN [i \in 1..Len(m) |->
            IF m[i].key = key THEN [key |-> key, val |-> val] ELSE m[i]]
    ELSE IF preserve_order
    THEN Append(m, [key |-> key, val |-> val])
    ELSE LET below == Cardinality({i \in 1..Len(m) : StrLess(m[i].key, key)})
         IN  SubSeq(m, 1, below) \o <<[key |-> key, val |-> val]>>
                \o SubSeq(m, below + 1, Len(m))

---------------------------------------------------------------------------
(* JSON text as tokens.                                                    *)

Punct(p) == [k |-> "punct", p |-> p]
Lit(l) == [k |-> "lit", l |-> l]
Num(neg, int, frac, sci) ==
    [k |-> "num", neg |-> neg, int |-> int, frac |-> frac, sci |-> sci]
Str(units) == [k |-> "str", units |-> units]
\* a line break followed by w indents; w = -1 is the single space after a colon
Ws(w) == [k |-> "ws", w |-> w]

Literal(c) == [u |-> "lit", c |-> c]
Escape(c) == [u |-> "esc", c |-> c]

\* serde_json's ESCAPE table: control characters, the quote and the backslash
\* are escaped, every other character (non-ASCII included) is written as it is
EscapeChar(c) ==
    IF c < 32 \/ c = 34 \/ c = 92 THEN Escape(c) ELSE Literal(c)

format_escaped_str(s) == Str([i \in 1..Len(s) |-> EscapeChar(s[i])])

\* itoa of an i64
WriteI64(neg, mag) == Num(neg, mag, <<>>, FALSE)

\* ryu of a finite f64: a fraction is always written; an integral double of
\* 17 digits or more (frac = <<>>) is written in scientific notation
WriteF64(f) == Num(f.neg, f.int, f.frac, f.frac = <<>>)

WriteNumber(n) ==
    CASE n.n = "PosInt" -> WriteI64(FALSE, n.mag)
      [] n.n = "NegInt" -> WriteI64(TRUE, n.mag)
      [] OTHER -> WriteF64(n.f)

RECURSIVE WriteValue(_, _, _)
RECURSIVE WriteElems(_, _, _, _)
RECURSIVE WriteMembers(_, _, _, _)

\* the elements of a non-empty array from the i-th on, each after its separator
WriteElems(a, i, pretty, level) ==
    IF i > Len(a) THEN <<>>
    ELSE (IF i > 1 THEN <<Punct(",")>> ELSE <<>>)
            \o (IF pretty THEN <<Ws(level)>> ELSE <<>>)
            \o WriteValue(a[i], pretty, level)
            \o WriteElems(a, i + 1, pretty, level)

WriteMembers(m, i, pretty, level) ==
    IF i > Len(m) THEN <<>>
    ELSE (IF i > 1 THEN <<Punct(",")>> ELSE <<>>)
            \o (IF pretty THEN <<Ws(level)>> ELSE <<>>)
            \o <<format_escaped_str(m[i].key), Punct(":")>>
            \o (IF pretty THEN <<Ws(-1)>> ELSE <<>>)
            \o WriteValue(m[i].val, pretty, level)
            \o WriteMembers(m, i + 1, pretty, level)

\* Serialize for Value under CompactFormatter (pretty = FALSE) or
\* PrettyFormatter (pretty = TRUE), at nesting level `level`
WriteValue(v, pretty, level) ==
    CASE v.t = "Null" -> <<Lit("null")>>
      [] v.t = "Bool" -> <<Lit(IF v.b THEN "true" ELSE "false")>>
      [] v.t = "Number" -> <<WriteNumber(v.num)>>
      [] v.t = "String" -> <<format_escaped_str(v.s)>>
      [] v.t = "Array" ->
            <<Punct("[")>> \o WriteElems(v.a, 1, pretty, level + 1)
                \o (IF pretty /\ v.a # <<>> THEN <<Ws(level)>> ELSE <<>>)
                \o <<Punct("]")>>
      [] v.t = "Object" ->
            <<Punct("{")>> \o WriteMembers(v.m, 1, pretty, level + 1)
                \o (IF pretty /\ v.m # <<>> THEN <<Ws(level)>> ELSE <<>>)
                \o <<Punct("}")>>

to_string(v) == WriteValue(v, FALSE, 0)
to_string_pretty(v) == WriteValue(v, TRUE, 0)

---------------------------------------------------------------------------
(* serde_json::from_str::<Value>.                                          *)

\* Deserializer::remaining_depth as from_str starts it
RecursionLimit == 128

ParseOk(v, i) == [ok |-> TRUE, v |-> v, i |-> i]
ParseErr(e) == [ok |-> FALSE, err |-> e]

\* white space between tokens means nothing: the parser skips it
NotWhitespace(tok) == tok.k # "ws"

\* the i-th token is the punctuation p
At(toks, i, p) == i <= Len(toks) /\ toks[i] = Punct(p)

\* a number literal: no leading zeros
NumberTokenValid(tok) ==
    /\ tok.int # <<>>
    /\ Len(tok.int) > 1 => tok.int[1] # 0

\* parse_integer and parse_number: an integer literal is a u64 when it fits,
\* a negative one an i64 when it fits, -0 is the float -0.0, and an integer
\* literal that does not fit is the nearest f64
ParseNumberToken(tok) ==
    IF tok.sci \/ tok.frac # <<>>
    THEN Float(F64Finite(tok.neg, tok.int, tok.frac))
    ELSE IF ~tok.neg
    THEN IF DigitsLE(tok.int, U64_MAX)
         THEN PosInt(tok.int)
         ELSE Float(F64Finite(FALSE, tok.int, <<>>))
    ELSE IF tok.int = <<0>>
    THEN Float(F64Finite(TRUE, <<0>>, <<0>>))
    ELSE IF DigitsLE(tok.int, I64_MIN_MAGNITUDE)
         THEN NegInt(tok.int)
         ELSE Float(F64Finite(TRUE, tok.int, <<>>))

\* parse_str: a literal control character, quote or backslash cannot stand
\* inside a string literal
StringTokenValid(tok) ==
    \A i \in 1..Len(tok.units) :
        tok.units[i].u = "lit" =>
            /\ tok.units[i].c >= 32
            /\ tok.units[i].c # 34
            /\ tok.units[i].c # 92

UnescapeStr(units) == [i \in 1..Len(units) |-> units[i].c]

\* a value that is one token
ParseScalar(tok, i) ==
    CASE tok.k = "lit" ->
            ParseOk(IF tok.l = "null" THEN JNull ELSE JBool(tok.l = "true"), i + 1)
      [] tok.k = "num" ->
            IF NumberTokenValid(tok)
            THEN ParseOk(JNumber(ParseNumberToken(tok)), i + 1)
            ELSE ParseErr("invalid number")
      [] tok.k = "str" ->
            IF StringTokenValid(tok)
            THEN ParseOk(JString(UnescapeStr(tok.units)), i + 1)
            ELSE ParseErr("invalid string")
      [] OTHER -> ParseErr("expected value")

(* The Deserializer as a pushdown machine over the tokens.  Its stack holds *)
(* one frame for every array or object that is open, with the elements or  *)
(* members read so far; remaining_depth is the Deserializer's field.       *)
(*   mode "value":  a value must start at token i                          *)
(*   mode "first":  just inside an opening bracket or brace                *)
(*   mode "member": a member must start at token i                         *)
(*   mode "after":  the value v is complete, token i follows it            *)

ArrayFrame(acc) == [kind |-> "array", acc |-> acc]
ObjectFrame(acc, key) == [kind |-> "object", acc |-> acc, key |-> key]

ParserStart ==
    [mode |-> "value", i |-> 1, stack |-> <<>>, remaining_depth |-> RecursionLimit]

ParserFail(st, e) == [mode |-> "error", err |-> e]

Top(st) == st.stack[Len(st.stack)]
Pop(st) == SubSeq(st.stack, 1, Len(st.stack) - 1)

\* a value is complete: v, with the next token at i
Complete(st, v, i) ==
    [mode |-> "after", i |-> i, stack |-> st.stack,
     remaining_depth |-> st.remaining_depth, v |-> v]

\* the closing bracket or brace of the innermost open container, whose value is v
Close(st, v) ==
    [mode |-> "after", i |-> st.i + 1, stack |-> Pop(st),
     remaining_depth |-> st.remaining_depth + 1, v |-> v]

\* an opening bracket or brace: check_recursion! takes one from
\* remaining_depth and fails when none is left
Open(st, frame) ==
    IF st.remaining_depth - 1 = 0
    THEN ParserFail(st, "recursion limit exceeded")
    ELSE [mode |-> "first", i |-> st.i + 1, stack |-> Append(st.stack, frame),
          remaining_depth |-> st.remaining_depth - 1]

\* deserialize_any at token i
StepValue(toks, st) ==
    CASE st.i > Len(toks) -> ParserFail(st, "EOF while parsing a value")
      [] toks[st.i] = Punct("[") -> Open(st, ArrayFrame(<<>>))
      [] toks[st.i] = Punct("{") -> Open(st, ObjectFrame(<<>>, <<>>))
      [] OTHER ->
            LET r == ParseScalar(toks[st.i], st.i) IN
            IF r.ok THEN Complete(st, r.v, r.i) ELSE ParserFail(st, r.err)

\* MapAccess::next_key_seed: a string, then a colon
StepMember(toks, st) ==
    CASE st.i > Len(toks) -> ParserFail(st, "EOF while parsing an object")
      [] toks[st.i].k # "str" -> ParserFail(st, "key must be a string")
      [] ~StringTokenValid(toks[st.i]) -> ParserFail(st, "invalid string")
      [] ~At(toks, st.i + 1, ":") -> ParserFail(st, "expected colon")
      [] OTHER ->
            [mode |-> "value", i |-> st.i + 2,
             stack |-> Append(Pop(st), ObjectFrame(Top(st).acc, UnescapeStr(toks[st.i].units))),
             remaining_depth |-> st.remaining_depth]

\* just inside an array or an object: it may end at once
StepFirst(toks, st) ==
    IF Top(st).kind = "array"
    THEN IF At(toks, st.i, "]") THEN Close(st, JArray(<<>>))
         ELSE StepValue(toks, [st EXCEPT !.mode = "value"])
    ELSE IF At(toks, st.i, "}") THEN Close(st, JObject(<<>>))
         ELSE StepMember(toks, st)

\* after a value: the document is complete, or the value goes into the
\* innermost open container, which goes on after a comma or ends
StepAfter(toks, st) ==
    IF st.stack = <<>> THEN [mode |-> "done", v |-> st.v, i |-> st.i]
    ELSE IF Top(st).kind = "array"
    THEN LET acc == Append(Top(st).acc, st.v) IN
         CASE At(toks, st.i, ",") ->
                [mode |-> "value", i |-> st.i + 1,
                 stack |-> Append(Pop(st), ArrayFrame(acc)),
                 remaining_depth |-> st.remaining_depth]
           [] At(toks, st.i, "]") -> Close(st, JArray(acc))
           [] st.i > Len(toks) -> ParserFail(st, "EOF while parsing a list")
           [] OTHER -> ParserFail(st, "expected comma or closing bracket")
    ELSE LET acc == MapInsert(Top(st).acc, Top(st).key, st.v) IN
         CASE At(toks, st.i, ",") ->
                [mode |-> "member", i |-> st.i + 1,
                 stack |-> Append(Pop(st), ObjectFrame(acc, <<>>)),
                 remaining_depth |-> st.remaining_depth]
           [] At(toks, st.i, "}") -> Close(st, JObject(acc))
           [] st.i > Len(toks) -> ParserFail(st, "EOF while parsing an object")
           [] OTHER -> ParserFail(st, "expected comma or closing brace")

ParserStep(toks, st) ==
    CASE st.mode = "value" -> StepValue(toks, st)
      [] st.mode = "first" -> StepFirst(toks, st)
      [] st.mode = "member" -> StepMember(toks, st)
      [] st.mode = "after" -> StepAfter(toks, st)

RECURSIVE ParserRun(_, _)
ParserRun(toks, st) ==
    IF st.mode \in {"done", "error"} THEN st ELSE ParserRun(toks, ParserStep(toks, st))

\* from_str: one value and then nothing more (Deserializer::end)
from_str(text) ==
    LET toks == SelectSeq(text, NotWhitespace)
        r == ParserRun(toks, ParserStart)
    IN  IF r.mode = "error" THEN ParseErr(r.err)
        ELSE IF r.i <= Len(toks) THEN ParseErr("trailing characters")
        ELSE ParseOk(r.v, r.i)

---------------------------------------------------------------------------
(* The host's values: Zval, ZendHashTable and its keys (ext_php_rs).       *)

ZNull == [z |-> "null"]
ZBool(b) == [z |-> "bool", zb |-> b]
ZLong(neg, mag) == [z |-> "long", neg |-> neg, mag |-> mag]
ZDouble(f) == [z |-> "double", f |-> f]
ZString(s) == [z |-> "string", s |-> s]
ZArray(ht) == [z |-> "array", ht |-> ht]
\* an object, and a value of a type with no JSON form (a resource)
ZObject(props) == [z |-> "object", props |-> props]
ZResource == [z |-> "resource"]

\* ArrayKey::Long and ArrayKey::String
KLong(i) == [kt |-> "Long", idx |-> i]
KString(s) == [kt |-> "String", str |-> s]

\* ZendHashTable::insert_at_index and ZendHashTable::insert: the entry of an
\* existing key is updated in place, a new key is added last
HashInsert(ht, key, val) ==
    IF \E i \in 1..Len(ht) : ht[i].key = key
    THEN [i \in 1..Len(ht) |->
            IF ht[i].key = key THEN [key |-> key, val |-> val] ELSE ht[i]]
    ELSE Append(ht, [key |-> key, val |-> val])

insert_at_index(ht, i, val) == HashInsert(ht, KLong(i), val)
insert(ht, key, val) == HashInsert(ht, KString(key), val)

None == [some |-> FALSE]
Some(x) == [some |-> TRUE, v |-> x]
unwrap_or(opt, default) == IF opt.some THEN opt.v ELSE default

---------------------------------------------------------------------------
(* JsonDecoder.  A result carries the value or the error, never both; its  *)
(* log lists, in order, the nodes convert was entered for, each named by   *)
(* its path of child positions from the root.                              *)

DefaultDepth == 512

DecodeConfig(as_array, max_depth) == [as_array |-> as_array, max_depth |-> max_depth]

DecodeOk(zval, log) == [ok |-> TRUE, zval |-> zval, log |-> log]
DecodeErr(msg, detail, log) == [ok |-> FALSE, err |-> msg, detail |-> detail, log |-> log]

make_null == ZNull
make_string(s) == ZString(s)

\* Display of Number: the text of the number, as code points
NumberToString(n) ==
    LET tok == WriteNumber(n)
        chars(ds) == [i \in 1..Len(ds) |-> 48 + ds[i]]
    IN  (IF tok.neg THEN <<45>> ELSE <<>>) \o chars(tok.int)
            \o (IF tok.frac # <<>> THEN <<46>> \o chars(tok.frac) ELSE <<>>)

Decoder_convert_number(n) ==
    LET i == as_i64(n)
        f == as_f64(n)
    IN  IF i.some THEN ZLong(i.neg, i.mag)
        ELSE IF f.some THEN ZDouble(f.f)
        ELSE ZString(NumberToString(n))

RECURSIVE Decoder_convert(_, _, _, _)
RECURSIVE Decoder_convert_array_from(_, _, _, _, _, _, _)
RECURSIVE Decoder_convert_object_from(_, _, _, _, _, _, _)

\* convert_array with the keys counted from one
Decoder_convert_array_from_OneBased(config, arr, depth, path, i, result, log) ==
    IF i > Len(arr) THEN DecodeOk(ZArray(result), log)
    ELSE LET r == Decoder_convert(config, arr[i], depth + 1, Append(path, i)) IN
         IF ~r.ok THEN DecodeErr(r.err, r.detail, log \o r.log)
         ELSE Decoder_convert_array_from(config, arr, depth, path, i + 1,
                  insert_at_index(result, i, r.zval), log \o r.log)

\* the loop of convert_array from its i-th element on
Decoder_convert_array_from(config, arr, depth, path, i, result, log) ==
    IF i > Len(arr) THEN DecodeOk(ZArray(result), log)
    ELSE LET r == Decoder_convert(config, arr[i], depth + 1, Append(path, i)) IN
         IF ~r.ok THEN DecodeErr(r.err, r.detail, log \o r.log)
         ELSE Decoder_convert_array_from(config, arr, depth, path, i + 1,
                  insert_at_index(result, i - 1, r.zval), log \o r.log)

Decoder_convert_array(config, arr, depth, path) ==
    Decoder_convert_array_from(config, arr, depth, path, 1, <<>>, <<>>)

\* the loop of convert_object from the i-th member of the Map on
Decoder_convert_object_from(config, obj, depth, path, i, result, log) ==
    IF i > Len(obj) THEN DecodeOk(ZArray(result), log)
    ELSE LET r == Decoder_convert(config, obj[i].val, depth + 1, Append(path, i)) IN
         IF ~r.ok THEN DecodeErr(r.err, r.detail, log \o r.log)
         ELSE Decoder_convert_object_from(config, obj, depth, path, i + 1,
                  insert(result, obj[i].key, r.zval), log \o r.log)

Decoder_convert_object(config, obj, depth, path) ==
    Decoder_convert_object_from(config, obj, depth, path, 1, <<>>, <<>>)

DepthExceeded(config, depth) == depth > config.max_depth

Decoder_convert(config, value, depth, path) ==
    IF DepthExceeded(config, depth)
    THEN DecodeErr("Maximum nesting depth exceeded", "", <<path>>)
    ELSE CASE value.t = "Null" -> DecodeOk(make_null, <<path>>)
           [] value.t = "Bool" -> DecodeOk(ZBool(value.b), <<path>>)
           [] value.t = "Number" -> DecodeOk(Decoder_convert_number(value.num), <<path>>)
           [] value.t = "String" -> DecodeOk(make_string(value.s), <<path>>)
           [] value.t = "Array" ->
                LET r == Decoder_convert_array(config, value.a, depth, path)
                IN  [r EXCEPT !.log = <<path>> \o @]
           [] value.t = "Object" ->
                LET r == Decoder_convert_object(config, value.m, depth, path)
                IN  [r EXCEPT !.log = <<path>> \o @]

JsonDecoder_decode(config, json) ==
    LET value == from_str(json) IN
    IF ~value.ok THEN DecodeErr("JSON syntax error", value.err, <<>>)
    ELSE Decoder_convert(config, value.v, 0, <<>>)

Json_decode(json, as_array, depth) ==
    JsonDecoder_decode(
        DecodeConfig(unwrap_or(as_array, FALSE), unwrap_or(depth, DefaultDepth)), json)

\* validate by a decode that admits no nesting
Json_validate_ByShallowDecode(json) == Json_decode(json, None, Some(0)).ok

Json_validate(json) == from_str(json).ok

---------------------------------------------------------------------------
(* JsonEncoder.                                                            *)

\* flags & bit, for a bit that is a power of two
BitSet(flags, bit) == (flags \div bit) % 2 = 1

from_flags(flags) ==
    [pretty |-> BitSet(flags, 128), unescaped_unicode |-> BitSet(flags, 256)]

EncodeOk(v, log) == [ok |-> TRUE, v |-> v, log |-> log]
EncodeErr(msg, log) == [ok |-> FALSE, err |-> msg, log |-> log]

\* the decimal text of a natural number, as code points
RECURSIVE NatToString(_)
NatToString(i) ==
    IF i < 10 THEN <<48 + i>> ELSE Append(NatToString(i \div 10), 48 + (i % 10))

\* Display of ArrayKey
ArrayKeyToString(key) ==
    IF key.kt = "Long"
    THEN IF key.idx < 0 THEN <<45>> \o NatToString(-key.idx) ELSE NatToString(key.idx)
    ELSE key.str

\* str::parse::<i64>: an optional sign, then digits only
RECURSIVE DigitsValue(_)
DigitsValue(s) ==
    IF s = <<>> THEN 0 ELSE DigitsValue(SubSeq(s, 1, Len(s) - 1)) * 10 + (s[Len(s)] - 48)

ParseI64(s) ==
    LET signed == s # <<>> /\ s[1] \in {43, 45}
        digits == IF signed THEN Tail(s) ELSE s
    IN  IF digits = <<>> \/ \E i \in 1..Len(digits) : digits[i] \notin 48..57
        THEN [ok |-> FALSE]
        ELSE [ok |-> TRUE,
              v |-> IF signed /\ s[1] = 45 THEN -DigitsValue(digits) ELSE DigitsValue(digits)]

RECURSIVE is_sequential_array_from(_, _, _)

\* is_sequential_array without the comparison with expected_index
is_sequential_array_from_AnyIntegerKeys(arr, i, expected_index) ==
    IF i > Len(arr) THEN TRUE
    ELSE IF arr[i].key.kt # "Long" THEN FALSE
    ELSE is_sequential_array_from(arr, i + 1, expected_index + 1)

\* the loop of is_sequential_array from the i-th entry on
is_sequential_array_from(arr, i, expected_index) ==
    IF i > Len(arr) THEN TRUE
    ELSE IF arr[i].key.kt # "Long" THEN FALSE
    ELSE LET index == ParseI64(ArrayKeyToString(arr[i].key)) IN
         IF ~index.ok THEN FALSE
         ELSE IF index.v # expected_index THEN FALSE
         ELSE is_sequential_array_from(arr, i + 1, expected_index + 1)

is_sequential_array(arr) == is_sequential_array_from(arr, 1, 0)

Encoder_convert_long(value, path) ==
    EncodeOk(JNumber(IF value.neg THEN NegInt(value.mag) ELSE PosInt(value.mag)), <<path>>)

\* convert_double with a float that is not finite refused
Encoder_convert_double_RefusingNonFinite(value, path) ==
    LET n == from_f64(value.f) IN
    IF n.some THEN EncodeOk(JNumber(n.n), <<path>>)
    ELSE EncodeErr("Failed to read float", <<path>>)

Encoder_convert_double(value, path) ==
    IF is_finite(value.f)
    THEN LET n == from_f64(value.f) IN
         IF n.some THEN EncodeOk(JNumber(n.n), <<path>>)
         ELSE EncodeErr("Failed to read float", <<path>>)
    ELSE EncodeOk(JNull, <<path>>)

Encoder_convert_string(value, path) == EncodeOk(JString(value.s), <<path>>)

RECURSIVE Encoder_convert(_, _)
RECURSIVE array_to_json_array_from(_, _, _, _, _)
RECURSIVE array_to_json_object_from(_, _, _, _, _)

\* array_to_json_array with an entry that fails left out
array_to_json_array_from_SkippingErrors(arr, path, i, result, log) ==
    IF i > Len(arr) THEN EncodeOk(JArray(result), log)
    ELSE LET r == Encoder_convert(arr[i].val, Append(path, i)) IN
         IF ~r.ok THEN array_to_json_array_from(arr, path, i + 1, result, log \o r.log)
         ELSE array_to_json_array_from(arr, path, i + 1, Append(result, r.v), log \o r.log)

\* the loop of array_to_json_array from the i-th entry on
array_to_json_array_from(arr, path, i, result, log) ==
    IF i > Len(arr) THEN EncodeOk(JArray(result), log)
    ELSE LET r == Encoder_convert(arr[i].val, Append(path, i)) IN
         IF ~r.ok THEN EncodeErr(r.err, log \o r.log)
         ELSE array_to_json_array_from(arr, path, i + 1, Append(result, r.v), log \o r.log)

array_to_json_array(arr, path) == array_to_json_array_from(arr, path, 1, <<>>, <<>>)

\* the loop of array_to_json_object from the i-th entry on
array_to_json_object_from(arr, path, i, result, log) ==
    IF i > Len(arr) THEN EncodeOk(JObject(result), log)
    ELSE LET key_str == ArrayKeyToString(arr[i].key)
             r == Encoder_convert(arr[i].val, Append(path, i))
         IN  IF ~r.ok THEN EncodeErr(r.err, log \o r.log)
             ELSE array_to_json_object_from(arr, path, i + 1,
                      MapInsert(result, key_str, r.v), log \o r.log)

array_to_json_object(arr, path) == array_to_json_object_from(arr, path, 1, <<>>, <<>>)

Encoder_convert_array(value, path) ==
    LET r == IF is_sequential_array(value.ht)
             THEN array_to_json_array(value.ht, path)
             ELSE array_to_json_object(value.ht, path)
    IN  [r EXCEPT !.log = <<path>> \o @]

\* Zval::array is None for a value that is not an array
Encoder_convert_object(value, path) ==
    EncodeErr("Failed to read object properties", <<path>>)

Encoder_convert(value, path) ==
    CASE value.z = "null" -> EncodeOk(JNull, <<path>>)
      [] value.z = "bool" /\ value.zb -> EncodeOk(JBool(TRUE), <<path>>)
      [] value.z = "bool" /\ ~value.zb -> EncodeOk(JBool(FALSE), <<path>>)
      [] value.z = "long" -> Encoder_convert_long(value, path)
      [] value.z = "double" -> Encoder_convert_double(value, path)
      [] value.z = "string" -> Encoder_convert_string(value, path)
      [] value.z = "array" -> Encoder_convert_array(value, path)
      [] value.z = "object" -> Encoder_convert_object(value, path)
      [] OTHER -> EncodeErr("Unsupported PHP type", <<path>>)

serialize(config, value) ==
    IF config.pretty THEN to_string_pretty(value) ELSE to_string(value)

JsonEncoder_encode(config, value) ==
    LET json_value == Encoder_convert(value, <<>>) IN
    IF ~json_value.ok THEN json_value
    ELSE [ok |-> TRUE, text |-> serialize(config, json_value.v), log |-> json_value.log]

Json_encode(value, options) ==
    JsonEncoder_encode(from_flags(unwrap_or(options, 0)), value)

---------------------------------------------------------------------------
(* The calls the model makes.                                              *)

\* entries of an encoded container of scalars
MaxLen == 2
\* entries of an encoded container of arbitrary keys
MaxKeys == 3
\* largest explicit depth limit; documents nest to MaxDepth + 1
MaxDepth == 2
\* tokens of an arbitrary text
MaxTextLen == 3

SeqsUpTo(S, n) == UNION {[1..k -> S] : k \in 0..n}

One == Num(FALSE, <<1>>, <<>>, FALSE)
StrA == Str(<<Literal(97)>>)
StrB == Str(<<Literal(98)>>)

\* every text of at most MaxTextLen of these tokens
RandomTexts ==
    SeqsUpTo({Punct("["), Punct("]"), Punct("{"), Punct("}"), Punct(","), Punct(":"),
              One, StrA}, MaxTextLen)

\* documents and near-documents written out by hand
HandTexts ==
    { <<Punct("["), One, Punct(","), One, Punct("]")>>,
      <<Punct("["), One, Punct(","), Punct("]")>>,
      <<Punct("["), One, One, Punct("]")>>,
      <<Punct("["), One, Punct(","), One>>,
      <<Punct("{"), StrA, Punct(":"), One, Punct("}")>>,
      <<Punct("{"), StrB, Punct(":"), One, Punct(","), StrA, Punct(":"), Lit("true"), Punct("}")>>,
      <<Punct("{"), StrA, Punct(":"), One, Punct(","), StrA, Punct(":"), Lit("null"), Punct("}")>>,
      <<Punct("{"), StrA, Punct(":"), One, Punct(","), Punct("}")>>,
      <<Punct("{"), StrA, One, Punct("}")>>,
      <<Punct("{"), One, Punct(":"), One, Punct("}")>>,
      <<Punct("{"), StrA, Punct(":"), One, Punct("}"), Punct("]")>>,
      <<Ws(0), Punct("["), Ws(1), Lit("false"), Ws(0), Punct("]"), Ws(0)>>,
      <<Num(FALSE, <<0, 1>>, <<>>, FALSE)>>,
      <<Str(<<Literal(10)>>)>>,
      <<Str(<<Escape(10), Literal(233), Escape(233), Escape(34)>>)>>,
      <<Lit("null")>>, <<Lit("true")>> }

\* number literals around the limits of i64 and u64
NumberTexts ==
    { <<Num(neg, int, <<>>, FALSE)>> :
        neg \in BOOLEAN,
        int \in { <<0>>, <<4, 2>>, I64_MAX, I64_MIN_MAGNITUDE,
                  <<9,2,2,3,3,7,2,0,3,6,8,5,4,7,7,5,8,0,9>>,
                  U64_MAX,
                  <<1,8,4,4,6,7,4,4,0,7,3,7,0,9,5,5,1,6,1,6>>,
                  <<9,9,9,9,9,9,9,9,9,9,9,9,9,9,9,9,9,9,9,9,9>> } }
    \cup { <<Num(FALSE, <<1>>, <<5>>, FALSE)>>, <<Num(TRUE, <<0>>, <<2, 5>>, FALSE)>>,
           <<Punct("["), Num(FALSE, <<1,8,4,4,6,7,4,4,0,7,3,7,0,9,5,5,1,6,1,6>>, <<>>, FALSE),
             Punct("]")>> }

\* documents of nesting at most d: a scalar, an empty container, or a container
\* of one sub-document, alone or beside a scalar
RECURSIVE Docs(_)
Docs(d) ==
    LET leaves == {JNumber(PosInt(<<1>>)), JArray(<<>>), JObject(<<>>)}
        one == JNumber(PosInt(<<1>>))
    IN  IF d = 0 THEN leaves
        ELSE leaves \cup UNION {
                { JArray(<<x>>), JArray(<<one, x>>), JArray(<<x, one>>),
                  JObject(<<[key |-> <<97>>, val |-> x]>>) } : x \in Docs(d - 1) }

TreeTexts == {to_string(v) : v \in Docs(MaxDepth + 1)}

\* k arrays, each inside the one before, the innermost one empty
Chain(k) == [i \in 1..(2 * k) |-> IF i <= k THEN Punct("[") ELSE Punct("]")]

\* the shallowest document that needs more than the parser's remaining_depth
DeepTexts == {Chain(RecursionLimit)}

DepthArgs == {None} \cup {Some(d) : d \in 0..MaxDepth}
AsArrayArgs == {None, Some(TRUE), Some(FALSE)}

DecodeCall(json, as_array, depth) ==
    [fn |-> "decode", json |-> json, as_array |-> as_array, depth |-> depth]
EncodeCall(value, options) == [fn |-> "encode", value |-> value, options |-> options]
ValidateCall(json) == [fn |-> "validate", json |-> json]

DecodeCalls ==
    {DecodeCall(j, a, d) : j \in TreeTexts, a \in {None, Some(TRUE)}, d \in DepthArgs}
    \cup {DecodeCall(j, None, None) : j \in RandomTexts \cup NumberTexts}
    \cup {DecodeCall(j, a, d) : j \in HandTexts, a \in {None, Some(FALSE)}, d \in {None, Some(1)}}
    \cup {DecodeCall(j, None, d) :
            j \in DeepTexts,
            d \in {None, Some(RecursionLimit - 2), Some(RecursionLimit - 1)}}

ValidateCalls ==
    {ValidateCall(j) : j \in TreeTexts \cup RandomTexts \cup HandTexts \cup NumberTexts \cup DeepTexts}

JsonScalars ==
    { ZNull, ZBool(TRUE), ZBool(FALSE),
      ZLong(FALSE, <<0>>), ZLong(TRUE, <<5>>), ZLong(FALSE, I64_MAX),
      ZLong(TRUE, I64_MIN_MAGNITUDE),
      ZDouble(F64Finite(FALSE, <<1>>, <<5>>)), ZDouble(F64Finite(TRUE, <<2>>, <<0>>)),
      ZString(<<>>), ZString(<<97>>), ZString(<<233>>), ZString(<<97, 34, 10, 92>>) }

NonFinite == {ZDouble(F64Infinity), ZDouble(F64NegInfinity), ZDouble(F64NaN)}

Unencodable == {ZResource, ZObject(<<>>)}

Leaves == JsonScalars \cup NonFinite \cup Unencodable

\* the container with keys 0..n-1 in order over the values vals
Sequential(vals) == ZArray([i \in 1..Len(vals) |-> [key |-> KLong(i - 1), val |-> vals[i]]])

\* the container with the keys ks in order, the i-th entry holding the integer i
Keyed(ks) ==
    ZArray([i \in 1..Len(ks) |-> [key |-> ks[i], val |-> ZLong(FALSE, <<i>>)]])

Keys == {KLong(0), KLong(1), KLong(2), KLong(3), KLong(10), KLong(-1), KString(<<97>>)}

KeyedContainers ==
    {Keyed(ks) : ks \in {s \in SeqsUpTo(Keys, MaxKeys) :
                            \A i, j \in 1..Len(s) : i # j => s[i] # s[j]}}

SequentialContainers == {Sequential(vals) : vals \in SeqsUpTo(Leaves, MaxLen)}

\* containers in containers: an inner container of a few leaves, alone or
\* between leaves, under integer keys 0.. or under string keys
SmallLeaves ==
    {ZLong(FALSE, <<1>>), ZDouble(F64NaN), ZDouble(F64Finite(FALSE, <<1>>, <<5>>)), ZResource}

WithKeys(vals, strings) ==
    ZArray([i \in 1..Len(vals) |->
              [key |-> IF strings THEN KString(<<96 + i>>) ELSE KLong(i - 1),
               val |-> vals[i]]])

InnerContainers ==
    {WithKeys(vals, st) : vals \in SeqsUpTo(SmallLeaves, MaxLen), st \in BOOLEAN}

NestedContainers ==
    {WithKeys(before \o <<inner>> \o after, st) :
        before \in SeqsUpTo(SmallLeaves, 1), after \in SeqsUpTo(SmallLeaves, 1),
        inner \in InnerContainers, st \in BOOLEAN}

EncodeCalls ==
    {EncodeCall(v, o) : v \in SequentialContainers, o \in {None, Some(256)}}
    \cup {EncodeCall(v, o) :
            v \in Leaves, o \in {None, Some(0), Some(1), Some(128), Some(256), Some(384)}}
    \cup {EncodeCall(v, o) : v \in KeyedContainers, o \in {None, Some(128)}}
    \cup {EncodeCall(v, o) : v \in NestedContainers, o \in {None, Some(384)}}

Calls == DecodeCalls \cup EncodeCalls \cup ValidateCalls

NoResult == [pending |-> TRUE]
NoCall == [fn |-> "none"]
Done(c, r) == [fn |-> c.fn, call |-> c, ret |-> r]

---------------------------------------------------------------------------
(* The state machine: one call of the module, then at most one more call   *)
(* that the caller makes with what the first returned.                     *)

Init ==
    /\ preserve_order \in BOOLEAN
    /\ call \in Calls
    /\ pc = "called"
    /\ ret = NoResult
    /\ prev = NoCall

\* Json::decode (json_decode)
Decode ==
    /\ pc = "called"
    /\ call.fn = "decode"
    /\ ret' = Json_decode(call.json, call.as_array, call.depth)
    /\ pc' = "returned"
    /\ UNCHANGED <<preserve_order, call, prev>>

\* Json::encode (json_encode)
Encode ==
    /\ pc = "called"
    /\ call.fn = "encode"
    /\ ret' = Json_encode(call.value, call.options)
    /\ pc' = "returned"
    /\ UNCHANGED <<preserve_order, call, prev>>

\* Json::validate (json_validate)
Validate ==
    /\ pc = "called"
    /\ call.fn = "validate"
    /\ ret' = [bool |-> Json_validate(call.json)]
    /\ pc' = "returned"
    /\ UNCHANGED <<preserve_order, call, prev>>

Then(next) ==
    /\ pc = "returned"
    /\ prev = NoCall
    /\ call' = next
    /\ prev' = Done(call, ret)
    /\ pc' = "called"
    /\ ret' = NoResult
    /\ UNCHANGED preserve_order

\* the caller decodes the text encode returned
DecodeEncoded ==
    /\ call.fn = "encode"
    /\ pc = "returned" /\ ret.ok
    /\ Then(DecodeCall(ret.text, Some(TRUE), None))

\* the caller encodes the value decode returned
EncodeDecoded ==
    /\ call.fn = "decode"
    /\ pc = "returned" /\ ret.ok
    /\ Then(EncodeCall(ret.zval, None))

\* the caller decodes the text it had validated
DecodeValidated ==
    /\ call.fn = "validate"
    /\ \E d \in {None, Some(0)} : Then(DecodeCall(call.json, None, d))

\* the caller decodes the same text again, to the same depth, with another as_array
DecodeAgain ==
    /\ call.fn = "decode"
    /\ \E a \in AsArrayArgs \ {call.as_array} : Then(DecodeCall(call.json, a, call.depth))

Next ==
    \/ Decode
    \/ Encode
    \/ Validate
    \/ DecodeEncoded
    \/ EncodeDecoded
    \/ DecodeValidated
    \/ DecodeAgain

Spec == Init /\ [][Next]_vars

---------------------------------------------------------------------------
(* What the claims speak of.                                               *)

Returned(fn) == pc = "returned" /\ call.fn = fn

SyntaxError == "JSON syntax error"
DepthError == "Maximum nesting depth exceeded"

max_depth_of(c) == unwrap_or(c.depth, DefaultDepth)

Min(S) == CHOOSE x \in S : \A y \in S : x <= y
Max(S) == CHOOSE x \in S : \A y \in S : x >= y

Opening == {Punct("["), Punct("{")}
Closing == {Punct("]"), Punct("}")}

\* the number of containers open around token i of a text
Nesting(text, i) ==
    Cardinality({j \in 1..(i - 1) : text[j] \in Opening})
        - Cardinality({j \in 1..(i - 1) : text[j] \in Closing})

\* the depth of the deepest node of a document, the root being at depth 0
DocDepth(text) ==
    Max({Nesting(text, i) : i \in {j \in 1..Len(text) : text[j] \notin Closing}})

\* syntactically valid documents: the texts written from a tree of values
Documents == TreeTexts \cup DeepTexts

\* the keys 0, 1, ..., n-1 in this order
KeysAreZeroToN(ht) == \A i \in 1..Len(ht) : ht[i].key = KLong(i - 1)

\* the keys of the members of the outermost object of a text, in text order
RootKeys(text) ==
    LET toks == SelectSeq(text, NotWhitespace)
        at == {i \in 1..Len(toks) :
                 /\ toks[i].k = "str"
                 /\ At(toks, i + 1, ":")
                 /\ Nesting(toks, i) = 1}
        nth(n) == CHOOSE i \in at : Cardinality({j \in at : j < i}) = n - 1
    IN  [n \in 1..Cardinality(at) |->
            [key |-> UnescapeStr(toks[nth(n)].units), first |-> toks[nth(n) + 2]]]

\* the value v has the shape the container rule gives the host value z
RECURSIVE ShapeAgrees(_, _)
ShapeAgrees(z, v) ==
    IF z.z # "array" THEN v.t \notin {"Array", "Object"}
    ELSE IF KeysAreZeroToN(z.ht)
    THEN /\ v.t = "Array"
         /\ Len(v.a) = Len(z.ht)
         /\ \A i \in 1..Len(z.ht) : ShapeAgrees(z.ht[i].val, v.a[i])
    ELSE /\ v.t = "Object"
         /\ Len(v.m) = Len(z.ht)
         /\ \A i \in 1..Len(z.ht) : \E j \in 1..Len(v.m) :
                /\ v.m[j].key = ArrayKeyToString(z.ht[i].key)
                /\ ShapeAgrees(z.ht[i].val, v.m[j].val)

\* in the value v, null stands where z has a float that is not finite, and a
\* number where z has a finite one
RECURSIVE FloatsAgree(_, _)
FloatsAgree(z, v) ==
    CASE z.z = "double" ->
            IF z.f.cls \in {"inf", "-inf", "nan"}
            THEN v = JNull
            ELSE v = JNumber(Float(z.f))
      [] z.z = "array" ->
            /\ v.t \in {"Array", "Object"}
            /\ v.t = "Array" =>
                    /\ Len(v.a) = Len(z.ht)
                    /\ \A i \in 1..Len(z.ht) : FloatsAgree(z.ht[i].val, v.a[i])
            /\ v.t = "Object" =>
                    \A i \in 1..Len(z.ht) : \E j \in 1..Len(v.m) :
                        /\ v.m[j].key = ArrayKeyToString(z.ht[i].key)
                        /\ FloatsAgree(z.ht[i].val, v.m[j].val)
      [] OTHER -> TRUE

\* a host value with a float that is not finite somewhere below its root
RECURSIVE HasNonFinite(_)
HasNonFinite(z) ==
    \/ z \in NonFinite
    \/ z.z = "array" /\ \E i \in 1..Len(z.ht) : HasNonFinite(z.ht[i].val)

\* a host value every node of which encode has a JSON form for
RECURSIVE Encodable(_)
Encodable(z) ==
    /\ z.z \notin {"object", "resource"}
    /\ z.z = "array" => \A i \in 1..Len(z.ht) : Encodable(z.ht[i].val)

\* the nodes of a tree in the order of a depth-first walk, parents first
RECURSIVE JsonPreOrder(_, _)
RECURSIVE JsonPreOrderFrom(_, _, _)
JsonPreOrderFrom(children, path, i) ==
    IF i > Len(children) THEN <<>>
    ELSE JsonPreOrder(children[i], Append(path, i)) \o JsonPreOrderFrom(children, path, i + 1)

JsonPreOrder(v, path) ==
    <<[path |-> path, fails |-> FALSE]>> \o
        (CASE v.t = "Array" -> JsonPreOrderFrom(v.a, path, 1)
           [] v.t = "Object" -> JsonPreOrderFrom([i \in 1..Len(v.m) |-> v.m[i].val], path, 1)
           [] OTHER -> <<>>)

RECURSIVE ZvalPreOrder(_, _)
RECURSIVE ZvalPreOrderFrom(_, _, _)
ZvalPreOrderFrom(ht, path, i) ==
    IF i > Len(ht) THEN <<>>
    ELSE ZvalPreOrder(ht[i].val, Append(path, i)) \o ZvalPreOrderFrom(ht, path, i + 1)

ZvalPreOrder(z, path) ==
    <<[path |-> path, fails |-> z.z \in {"object", "resource"}]>> \o
        (IF z.z = "array" THEN ZvalPreOrderFrom(z.ht, path, 1) ELSE <<>>)

Paths(order) == [i \in 1..Len(order) |-> order[i].path]

\* the walk of order, stopped at its first failing node: the operation ends
\* in an error there and carries no value, or it visits every node and succeeds
StopsAtFirstError(order, bad, payload) ==
    IF bad = {}
    THEN ret.ok /\ ret.log = Paths(order)
    ELSE /\ ~ret.ok
         /\ payload \notin DOMAIN ret
         /\ ret.log = SubSeq(Paths(order), 1, Min(bad))

NonAsciiUnits(text, kind) ==
    {<<i, j>> \in (1..Len(text)) \X (1..4) :
        /\ text[i].k = "str"
        /\ j <= Len(text[i].units)
        /\ text[i].units[j].u = kind
        /\ text[i].units[j].c > 127}

---------------------------------------------------------------------------
(* The claims.                                                             *)

\* C1: for every max_depth >= 0 and every syntactically valid document, decode
\* succeeds when the deepest node is at depth exactly max_depth, and fails with
\* the depth-exceeded error when some node is at depth max_depth + 1 or deeper.
C1_DepthBoundary ==
    (Returned("decode") /\ call.json \in Documents /\ max_depth_of(call) >= 0) =>
        /\ DocDepth(call.json) = max_depth_of(call) => ret.ok
        /\ DocDepth(call.json) > max_depth_of(call) => ~ret.ok /\ ret.err = DepthError

\* C1, for the documents that nest less deeply than the parser's recursion
\* limit: the boundary of the claim holds of convert's comparison.
C1_DepthBoundaryOfShallowDocuments ==
    (Returned("decode") /\ call.json \in TreeTexts /\ max_depth_of(call) >= 0) =>
        /\ DocDepth(call.json) <= max_depth_of(call) => ret.ok
        /\ DocDepth(call.json) > max_depth_of(call) => ~ret.ok /\ ret.err = DepthError

\* C2: encode renders a container as a JSON array if and only if its keys, in
\* iteration order, are exactly 0, 1, ..., n-1; every other container is
\* rendered as a JSON object, and the empty container as [].  This holds of
\* the container passed to encode and of every container inside it.
C2_ArrayIffSequentialKeys ==
    (Returned("encode") /\ ret.ok) =>
        /\ from_str(ret.text).ok
        /\ ShapeAgrees(call.value, from_str(ret.text).v)
        /\ call.value.z = "array" =>
                (SelectSeq(ret.text, NotWhitespace)[1] = Punct("[")
                    <=> KeysAreZeroToN(call.value.ht))
        /\ call.value = ZArray(<<>>) => ret.text = <<Punct("["), Punct("]")>>

C2_Witness ==
    /\ Returned("encode") /\ ret.ok
    /\ call.value = Keyed(<<KLong(0), KLong(1), KLong(3)>>)
    /\ ret.text[1] = Punct("{")

\* C3: a container that encode classifies as an object is written with one
\* member per entry, in the container's iteration order, each keyed by the
\* text of its key; {1:"a",0:"b"} is written with member 1 before member 0.
C3_ObjectMembersInIterationOrder ==
    (Returned("encode") /\ ret.ok /\ call.value.z = "array"
        /\ ~KeysAreZeroToN(call.value.ht)) =>
        LET ht == call.value.ht
            members == RootKeys(ret.text)
        IN  /\ Len(members) = Len(ht)
            /\ \A i \in 1..Len(ht) :
                /\ members[i].key = ArrayKeyToString(ht[i].key)
                /\ ht[i].val.z = "long" =>
                        members[i].first = WriteI64(ht[i].val.neg, ht[i].val.mag)

\* C4: an integral number within the range of i64 decodes to that integer,
\* and an integral number beyond what 64 bits hold decodes to its decimal
\* text as a string.  (Negative zero is left aside.)
C4_NumberFidelity ==
    (Returned("decode") /\ call.json \in NumberTexts /\ Len(call.json) = 1
        /\ call.json[1].frac = <<>> /\ call.json[1].int # <<0>>) =>
        LET tok == call.json[1]
            within == DigitsLE(tok.int, IF tok.neg THEN I64_MIN_MAGNITUDE ELSE I64_MAX)
            beyond == ~DigitsLE(tok.int, U64_MAX)
        IN  /\ ret.ok
            /\ within => ret.zval = ZLong(tok.neg, tok.int)
            /\ beyond => ret.zval = ZString(NumberToString(
                            IF tok.neg THEN NegInt(tok.int) ELSE PosInt(tok.int)))

C6_UnescapedUnicodeFlag ==
    (Returned("encode") /\ ret.ok) =>
        IF from_flags(unwrap_or(call.options, 0)).unescaped_unicode
        THEN NonAsciiUnits(ret.text, "esc") = {}
        ELSE NonAsciiUnits(ret.text, "lit") = {}

\* C7: encode puts null in the place of every float that is infinite or not a
\* number, at the root or anywhere below it, and a number in the place of a
\* finite float; the encode succeeds whenever every node has a JSON form.
C7_NonFiniteFloatIsNull ==
    Returned("encode") =>
        /\ Encodable(call.value) => ret.ok
        /\ ret.ok =>
            /\ from_str(ret.text).ok
            /\ FloatsAgree(call.value, from_str(ret.text).v)
        /\ call.value \in NonFinite => ret.ok /\ ret.text = <<Lit("null")>>

C7_Witness ==
    /\ Returned("encode") /\ ret.ok
    /\ call.value.z = "array"
    /\ \E i \in 1..Len(call.value.ht) :
            /\ call.value.ht[i].val.z = "array"
            /\ HasNonFinite(call.value.ht[i].val)
    /\ \E i \in 1..Len(ret.text) : ret.text[i] = Lit("null")

\* C8: validate and decode agree on every text: what decode accepts validate
\* answers true, what decode rejects with a syntax error validate answers
\* false, what decode rejects only for its depth validate answers true; and
\* validate returns a boolean, never an error.
C8_ValidateAgreesWithDecode ==
    /\ Returned("validate") => ret \in {[bool |-> TRUE], [bool |-> FALSE]}
    /\ (Returned("decode") /\ prev.fn = "validate") =>
            /\ ret.ok => prev.ret.bool
            /\ (~ret.ok /\ ret.err = SyntaxError) => ~prev.ret.bool
            /\ (~ret.ok /\ ret.err = DepthError) => prev.ret.bool

C8_Witness ==
    /\ Returned("decode") /\ prev.fn = "validate"
    /\ ~ret.ok /\ ret.err = DepthError
    /\ prev.ret.bool

\* C9: in the walks of decode and of encode the first error at any node ends
\* the operation with that error: the nodes before it in the walk were
\* converted, no node after it is, and the caller gets no value or text.
C9_FirstErrorAborts ==
    /\ (Returned("decode") /\ (ret.ok \/ ret.err # SyntaxError)) =>
            LET order == JsonPreOrder(from_str(call.json).v, <<>>)
                bad == {i \in 1..Len(order) : Len(order[i].path) > max_depth_of(call)}
            IN  /\ StopsAtFirstError(order, bad, "zval")
                /\ ~ret.ok => ret.err = DepthError
    /\ (Returned("decode") /\ ~ret.ok /\ ret.err = SyntaxError) =>
            ret.log = <<>> /\ "zval" \notin DOMAIN ret
    /\ Returned("encode") =>
            LET order == ZvalPreOrder(call.value, <<>>)
                bad == {i \in 1..Len(order) : order[i].fails}
            IN  StopsAtFirstError(order, bad, "text")

C9_Witness ==
    /\ Returned("decode") /\ ~ret.ok /\ ret.err = DepthError
    /\ Len(ret.log) >= 2
    /\ Len(ret.log) < Len(JsonPreOrder(from_str(call.json).v, <<>>))

\* C10: the result of decode does not depend on as_array: the same text
\* decoded to the same depth gives the same outcome, the same error or the
\* same value, in which a JSON object is a container keyed by the object's
\* keys in the order of the text and a JSON array a container with the keys
\* 0..n-1.
C10_DecodeIgnoresAsArrayInSourceOrder ==
    /\ (Returned("decode") /\ prev.fn = "decode") =>
            call.as_array # prev.call.as_array /\ ret = prev.ret
    /\ (Returned("decode") /\ ret.ok) =>
            LET toks == SelectSeq(call.json, NotWhitespace)
                members == RootKeys(call.json)
                keys == [i \in 1..Len(members) |-> KString(members[i].key)]
            IN  /\ ret.zval.z \in {"null", "bool", "long", "double", "string", "array"}
                /\ (toks[1] = Punct("{")
                        /\ \A i, j \in 1..Len(keys) : keys[i] = keys[j] => i = j) =>
                        /\ ret.zval.z = "array"
                        /\ [i \in 1..Len(ret.zval.ht) |-> ret.zval.ht[i].key] = keys
                /\ toks[1] = Punct("[") =>
                        ret.zval.z = "array" /\ KeysAreZeroToN(ret.zval.ht)

\* C10, without the order of the text: the outcome is the same whatever
\* as_array is, and the keys of a decoded object are those of the parsed
\* object in the order of its Map.
C10_DecodeIgnoresAsArray ==
    (Returned("decode") /\ prev.fn = "decode") =>
        /\ call.as_array # prev.call.as_array
        /\ ret = prev.ret
        /\ (ret.ok /\ from_str(call.json).v.t = "Object") =>
                /\ ret.zval.z = "array"
                /\ [i \in 1..Len(ret.zval.ht) |-> ret.zval.ht[i].key]
                    = [i \in 1..Len(from_str(call.json).v.m) |->
                            KString(from_str(call.json).v.m[i].key)]
        /\ (ret.ok /\ from_str(call.json).v.t = "Array") =>
                ret.zval.z = "array" /\ KeysAreZeroToN(ret.zval.ht)

=============================================================================
